---- MODULE Spec2Model ----
(***************************************************************************)
(* EONTA spatial audio transition engine.                                  *)
(*                                                                         *)
(* EnhancedAudioService (playAudio, stopAudio, setVolume, fadeOutAudio,    *)
(* applyEffect and the cleanup callbacks they schedule) and                *)
(* BoundaryTransitionManager (applyEntryTransition, applyExitTransition),  *)
(* driven by a stream of per-boundary position updates.                    *)
(*                                                                         *)
(* Real numbers (progress, volumes) are exact rationals <<num, den>> with  *)
(* den > 0.  Durations are in milliseconds.  Distances are signed metres   *)
(* (negative = inside the boundary).                                       *)
(***************************************************************************)
EXTENDS Integers, Sequences, FiniteSets, TLC

(* ---------------------------- bounds ---------------------------------- *)

\* audio sources created over a session
MaxSources == 2
\* playAudio calls awaiting fetch/decode at one time
MaxPending == 1
\* cleanup callbacks scheduled at one time
MaxTimers == 2
\* position updates place the listener at k half-radii from the edge, -2 <= k <= MaxK
MaxK == 3

(* ----------------------- program constants ---------------------------- *)

\* defaultSettings.transitionRadius (metres)
transitionRadius == 10
\* defaultSettings.fadeInLength (1.5 s)
fadeInLength == 1500
\* defaultSettings.fadeOutLength (2.0 s)
fadeOutLength == 2000
\* stopAudio(regionId, 0.5) of the filter exits
FilterStopMs == 500

\* the boundary ids of the composition
Boundaries == {1}
\* the signed distances to the edge the position updates produce
Distances == {k * (transitionRadius \div 2) : k \in (0 - 2)..MaxK}

(* --------------------------- rationals -------------------------------- *)

RECURSIVE Gcd(_, _)
Gcd(a, b) == IF b = 0 THEN a ELSE Gcd(b, a % b)

Abs(x) == IF x < 0 THEN 0 - x ELSE x

\* the rational n/d (d # 0) in lowest terms with a positive denominator
Frac(n, d) ==
  LET s == IF d < 0 THEN 0 - 1 ELSE 1
      g == Gcd(Abs(n), Abs(d))
  IN  <<(s * n) \div g, (s * d) \div g>>

Zero == <<0, 1>>
One == <<1, 1>>

FLeq(a, b) == a[1] * b[2] <= b[1] * a[2]
FLt(a, b) == a[1] * b[2] < b[1] * a[2]
FAdd(a, b) == Frac(a[1] * b[2] + b[1] * a[2], a[2] * b[2])
FSub(a, b) == Frac(a[1] * b[2] - b[1] * a[2], a[2] * b[2])
FMul(a, b) == Frac(a[1] * b[1], a[2] * b[2])
FDiv(a, b) == Frac(a[1] * b[2], a[2] * b[1])
\* Math.min / Math.max
FMin(a, b) == IF FLeq(a, b) THEN a ELSE b
FMax(a, b) == IF FLeq(b, a) THEN a ELSE b
FInt(n) == <<n, 1>>

(* ------------------------ transition types ---------------------------- *)

VOLUME_FADE == "volume_fade"
LOWPASS_FILTER == "lowpass_filter"
HIGHPASS_FILTER == "highpass_filter"
REVERB_TAIL == "reverb_tail"
PITCH_SHIFT == "pitch_shift"
DELAY_FEEDBACK == "delay_feedback"
CROSSFADE == "crossfade"
DOPPLER == "doppler"
SPATIAL_BLEND == "spatial_blend"

\* the transition settings the boundary of the checked compositions is
\* configured with: the default volume fades, or the lowpass filter both ways
\* this.transitionTypes: the values a fadeInType / fadeOutType is chosen from
transitionTypes ==
  {VOLUME_FADE, LOWPASS_FILTER, HIGHPASS_FILTER, REVERB_TAIL, PITCH_SHIFT,
   DELAY_FEEDBACK, CROSSFADE, DOPPLER, SPATIAL_BLEND}

\* a type string createTransitionSettings accepts although no switch names it
UnlistedType == "unlisted_type"

\* the type read from settings that carry no fadeInType / fadeOutType
AbsentType == "undefined"

TransitionSettings ==
  {[fadeInType |-> VOLUME_FADE, fadeOutType |-> VOLUME_FADE],
   [fadeInType |-> LOWPASS_FILTER, fadeOutType |-> LOWPASS_FILTER]}

(* ------------------------------ state --------------------------------- *)

VARIABLES
  sources,     \* EnhancedAudioService.sources:     boundary id -> source (0 = no entry)
  gainNodes,   \* EnhancedAudioService.gainNodes:   boundary id -> gain node (0 = no entry)
  effectNodes, \* EnhancedAudioService.effectNodes: boundary id -> effect map (0 = no entry)
  nodes,       \* every buffer source created so far, with its gain node and effect map
  pending,     \* playAudio calls suspended at an await (fetch / arrayBuffer / decode)
  timers,      \* setTimeout callbacks not yet run, in the order they were scheduled
  settings,    \* transition settings of each boundary (fixed for the session)
  lastDist,    \* BoundaryRuntimeState: last computed distanceToEdge (<<>> before the first)
  phase,       \* BoundaryRuntimeState: Outside / Entering / Inside / Exiting
  progress,    \* BoundaryRuntimeState: last applied progress
  calls,       \* history: the audio-service calls made by the last step, with their results
  reentered,   \* history: boundaries that got an Entering event while a cleanup was scheduled
  lastFire,    \* history: what the last cleanup callback did
  input,       \* the input of the function under evaluation (<<>> in a playback session)
  output,      \* its result (<<>> until evaluated)
  recorder     \* PathRecorderService: its fields, and what its last call returned

vars == <<sources, gainNodes, effectNodes, nodes, pending, timers, settings,
          lastDist, phase, progress, calls, reentered, lastFire, input, output,
          recorder>>

\* the part of the state EnhancedAudioService owns
Svc == [sources |-> sources, gainNodes |-> gainNodes, effectNodes |-> effectNodes,
        nodes |-> nodes, timers |-> timers]

NoFire == [kind |-> "none", id |-> 0, stale |-> FALSE, harmed |-> FALSE,
           orphan |-> 0, late |-> FALSE]

\* new PathRecorderService(mapService, audioService). awaiting, submitted,
\* overdue and returned are history: the generateComposition calls not yet
\* answered, those made since the last successful startRecording, whether
\* Date.now() - recordingStartTime has passed maxDuration, and the value the
\* last call returned
NewRecorder ==
  [isRecording |-> FALSE, recordedPath |-> <<>>, recordedAudio |-> <<>>,
   pathPolyline |-> <<>>, watching |-> FALSE, recordingInterval |-> FALSE,
   awaiting |-> 0, submitted |-> 0, overdue |-> FALSE, returned |-> "none"]

\* a session before the first position update
Idle ==
  /\ sources = [b \in Boundaries |-> 0]
  /\ gainNodes = [b \in Boundaries |-> 0]
  /\ effectNodes = [b \in Boundaries |-> 0]
  /\ nodes = <<>>
  /\ pending = <<>>
  /\ timers = <<>>
  /\ settings \in [Boundaries -> TransitionSettings]
  /\ lastDist = [b \in Boundaries |-> <<>>]
  /\ phase = [b \in Boundaries |-> "Outside"]
  /\ progress = [b \in Boundaries |-> Zero]
  /\ calls = <<>>
  /\ reentered = {}
  /\ lastFire = NoFire
  /\ recorder = NewRecorder

Init ==
  /\ Idle
  /\ input = <<>>
  /\ output = <<>>

(* ------------------ EnhancedAudioService operations ------------------- *)
(* Each operation maps the service state S (a record shaped like Svc) to   *)
(* [S |-> the state it leaves, ok |-> the value it returns].               *)

Call(fn, id, ok, arg, S) ==
  [fn |-> fn, id |-> id, ok |-> ok, arg |-> arg, wasActive |-> S.sources[id] # 0]

SetGain(S, g, v) == [S EXCEPT !.nodes[g].gain = v]

Schedule(S, t) == [S EXCEPT !.timers = Append(@, t)]

\* stopAudio without the failure result for an id that has no source
stopAudio_ReturnsTrue(S, id, fadeOut) ==
  LET source == S.sources[id]
      gainNode == S.gainNodes[id]
  IN  IF source = 0 \/ gainNode = 0
        THEN [S |-> S, ok |-> TRUE]
        ELSE [S |-> Schedule(SetGain(S, gainNode, Zero),
                             [kind |-> "stop", id |-> id, src |-> source,
                              delay |-> fadeOut]),
              ok |-> TRUE]

\* stopAudio(id, fadeOut): ramp the gain to 0 and schedule the cleanup
stopAudio(S, id, fadeOut) ==
  LET source == S.sources[id]
      gainNode == S.gainNodes[id]
  IN  IF source = 0 \/ gainNode = 0
        THEN [S |-> S, ok |-> FALSE]
        ELSE [S |-> Schedule(SetGain(S, gainNode, Zero),
                             [kind |-> "stop", id |-> id, src |-> source,
                              delay |-> fadeOut]),
              ok |-> TRUE]

\* setVolume(id, volume): ramp the gain to volume over 0.05 s
setVolume(S, id, volume) ==
  LET gainNode == S.gainNodes[id]
  IN  IF gainNode = 0
        THEN [S |-> S, ok |-> FALSE]
        ELSE [S |-> SetGain(S, gainNode, volume), ok |-> TRUE]

\* fadeOutAudio(id, duration): ramp the gain to 0 and schedule the cleanup
fadeOutAudio(S, id, duration) ==
  LET gainNode == S.gainNodes[id]
  IN  IF gainNode = 0
        THEN [S |-> S, ok |-> FALSE]
        ELSE [S |-> Schedule(SetGain(S, gainNode, Zero),
                             [kind |-> "fade", id |-> id, src |-> 0,
                              delay |-> duration]),
              ok |-> TRUE]

\* applyEffect(id, effectType, parameters): the parameters are written to the
\* audio params of the effect node, which the model does not keep
applyEffect(S, id, effectType) ==
  LET effectsMap == S.effectNodes[id]
  IN  IF effectsMap = 0
        THEN [S |-> S, ok |-> FALSE]
        ELSE IF effectType \notin S.nodes[effectsMap].effects
          THEN [S |-> S, ok |-> FALSE]
          ELSE [S |-> S, ok |-> TRUE]

\* the AudioParam method each service call writes its value with: the gain
\* calls schedule linearRampToValueAtTime at now + duration; applyEffect and
\* setMasterVolume call setValueAtTime at currentTime (pitchShift assigns a field)
ParamWrite(fn) ==
  IF fn \in {"playAudio", "stopAudio", "setVolume", "fadeOutAudio"}
    THEN "linearRampToValueAtTime"
    ELSE "setValueAtTime"

\* playAudio after its awaits: create the source, its gain node and effect
\* chain, store them under id, start the source with the gain at 0 (start) and
\* ramp it to options.volume (gain) over options.fadeIn
Register(S, p) ==
  LET k == Len(S.nodes) + 1
  IN  [S EXCEPT !.nodes = Append(@, [id |-> p.id, playing |-> TRUE, start |-> Zero,
                                     gain |-> p.volume, fadeIn |-> p.fadeIn,
                                     effects |-> p.effects, late |-> p.late]),
                !.sources[p.id] = k,
                !.gainNodes[p.id] = k,
                !.effectNodes[p.id] = k]

\* playAudio after its awaits when a later statement throws (effect factory,
\* connect or source.start): the three maps were already set, of the effect
\* chain only the part in built exists, the source never starts and no ramp
\* is scheduled
RegisterThrown(S, p, built) ==
  LET k == Len(S.nodes) + 1
  IN  [S EXCEPT !.nodes = Append(@, [id |-> p.id, playing |-> FALSE, start |-> Zero,
                                     gain |-> Zero, fadeIn |-> p.fadeIn,
                                     effects |-> built, late |-> p.late]),
                !.sources[p.id] = k,
                !.gainNodes[p.id] = k,
                !.effectNodes[p.id] = k]

\* a cleanup callback that leaves the effect map of the id in place
StopCleanup_KeepsEffects(S, t) ==
  [S EXCEPT !.nodes[t.src].playing = FALSE,
            !.sources[t.id] = 0,
            !.gainNodes[t.id] = 0]

\* the callback stopAudio hands to setTimeout
StopCleanup(S, t) ==
  [S EXCEPT !.nodes[t.src].playing = FALSE,
            !.sources[t.id] = 0,
            !.gainNodes[t.id] = 0,
            !.effectNodes[t.id] = 0]

\* a fadeOutAudio callback that never stops the source
FadeCleanup_NoStop(S, t) == S

\* the callback fadeOutAudio hands to setTimeout
FadeCleanup(S, t) ==
  IF S.sources[t.id] # 0 THEN stopAudio(S, t.id, 0).S ELSE S

\* getActiveAudio(): the ids it reports
getActiveAudio == {b \in Boundaries : sources[b] # 0}

\* setTimeout order: a callback cannot run before one scheduled earlier with a
\* delay no longer than its own
Due(i) == \A j \in 1..(i - 1) : timers[j].delay > timers[i].delay

RemoveAt(seq, i) == SubSeq(seq, 1, i - 1) \o SubSeq(seq, i + 1, Len(seq))

(* ------------------- BoundaryTransitionManager ------------------------ *)

\* entry progress computed from the unsigned distance
EntryProgress_AbsDistance(d, R) ==
  FMin(One, FMax(Zero, FDiv(FInt(R - Abs(d)), FInt(R))))

\* entry progress that grows with the distance instead of falling
EntryProgress_FromDistance(d, R) == FMin(One, FMax(Zero, FDiv(FInt(d), FInt(R))))

\* applyEntryTransition: progress = Math.min(1, Math.max(0, (R - d) / R))
EntryProgress(d, R) == FMin(One, FMax(Zero, FDiv(FInt(R - d), FInt(R))))

\* exit progress that is not complemented
ExitProgress_NotComplemented(d, R) == FMin(One, FMax(Zero, FDiv(FInt(d), FInt(R))))

\* exit progress without the clamp to [0, 1]
ExitProgress_Unclamped(d, R) == FSub(One, FDiv(FInt(d), FInt(R)))

\* applyExitTransition: progress = Math.min(1, Math.max(0, 1 - (d / R)))
ExitProgress(d, R) == FMin(One, FMax(Zero, FSub(One, FDiv(FInt(d), FInt(R)))))

\* an entry switch whose default case builds a lowpass chain
EntryEffects_DefaultChain(type) == IF type = VOLUME_FADE THEN {} ELSE {"lowpass"}

\* the effect chain playAudio builds from the options.effects of each fadeInType:
\* the keys that are enabled and have an effect factory
EntryEffects(type) ==
  CASE type = LOWPASS_FILTER -> {"lowpass"}
    [] type = HIGHPASS_FILTER -> {"highpass"}
    [] type = REVERB_TAIL -> {"reverb"}
    [] type = PITCH_SHIFT -> {"pitchShift"}
    [] type = DELAY_FEEDBACK -> {"delay"}
    [] type = DOPPLER -> {"pitchShift"}
    [] type = SPATIAL_BLEND -> {"spatialAudio"}
    [] OTHER -> {}

\* the options applyEntryTransition passes to playAudio
EntryOptions(id, type, d) ==
  [id |-> id, volume |-> EntryProgress(d, transitionRadius), fadeIn |-> fadeInLength,
   effects |-> EntryEffects(type)]

\* the effect node each fadeOutType automates
ExitEffect(type) ==
  CASE type = LOWPASS_FILTER -> "lowpass"
    [] type = HIGHPASS_FILTER -> "highpass"
    [] type = REVERB_TAIL -> "reverb"
    [] type = PITCH_SHIFT -> "pitchShift"
    [] type = DELAY_FEEDBACK -> "delay"
    [] type = DOPPLER -> "pitchShift"
    [] type = SPATIAL_BLEND -> "spatialAudio"

\* the fade tail each fadeOutType stops the source with (ms)
ExitStopMs(type) ==
  CASE type \in {LOWPASS_FILTER, HIGHPASS_FILTER} -> FilterStopMs
    [] type = REVERB_TAIL -> (fadeOutLength * 3) \div 2
    [] type = DELAY_FEEDBACK -> fadeOutLength * 2
    [] OTHER -> fadeOutLength

FadingTypes == {LOWPASS_FILTER, HIGHPASS_FILTER, REVERB_TAIL, PITCH_SHIFT,
                DELAY_FEEDBACK, DOPPLER, SPATIAL_BLEND}

\* a stop threshold of one half instead of 0.05
AtStopThreshold_Half(p) == FLeq(p, <<1, 2>>)

\* progress <= 0.05
AtStopThreshold(p) == FLeq(p, <<5, 100>>)

\* applyExitTransition(regionId, settings, d) on service state S:
\* [S |-> the state it leaves, calls |-> the service calls it made]
applyExitTransition(S, id, type, d) ==
  LET p == ExitProgress(d, transitionRadius)
  IN  IF type \in FadingTypes
        THEN LET r1 == applyEffect(S, id, ExitEffect(type))
                 r2 == setVolume(r1.S, id, p)
                 r3 == stopAudio(r2.S, id, ExitStopMs(type))
                 c12 == <<Call("applyEffect", id, r1.ok, ExitEffect(type), S),
                          Call("setVolume", id, r2.ok, p, r1.S)>>
             IN  IF AtStopThreshold(p)
                   THEN [S |-> r3.S,
                         calls |-> Append(c12, Call("stopAudio", id, r3.ok,
                                                    ExitStopMs(type), r2.S))]
                   ELSE [S |-> r2.S, calls |-> c12]
        ELSE LET r == fadeOutAudio(S, id, fadeOutLength)
             IN  [S |-> r.S,
                  calls |-> <<Call("fadeOutAudio", id, r.ok, fadeOutLength, S)>>]

\* calculateDistance(point1, point2) for two points of one meridian (equal
\* lng), where sqrt(dlat^2 + 0^2) is |dlat|
calculateDistance(point1, point2) == Abs(point2.lat - point1.lat)

\* const baseVolume = region.settings.volume || 1.0: an absent or zero
\* volume setting counts as 1.0
baseVolume(region) ==
  IF region.settings.volume = <<>> \/ region.settings.volume[1] = Zero
    THEN One
    ELSE region.settings.volume[1]

\* a proportional blend without the 70 % floor
crossfadeVolume_Proportional(base, distance, totalDistance) ==
  FMul(base, FSub(One, Frac(distance, totalDistance)))

\* base * (0.7 + 0.3 * ratio), ratio = 1 - (distance / totalDistance)
crossfadeVolume(base, distance, totalDistance) ==
  FMul(base, FAdd(<<7, 10>>, FMul(<<3, 10>>, FSub(One, Frac(distance, totalDistance)))))

\* an inner loop body that blends a pair whatever its crossfadeOverlap settings
CrossfadePair_IgnoresOverlap(acc, activeRegions, position, i, j) ==
  LET region1 == activeRegions[i]
      region2 == activeRegions[j]
      distance1 == calculateDistance(position, region1.center)
      distance2 == calculateDistance(position, region2.center)
      totalDistance == distance1 + distance2
      v1 == crossfadeVolume(baseVolume(region1), distance1, totalDistance)
      v2 == crossfadeVolume(baseVolume(region2), distance2, totalDistance)
      r1 == setVolume(acc.S, region1.id, v1)
      r2 == setVolume(r1.S, region2.id, v2)
  IN  IF totalDistance = 0
        THEN acc
        ELSE [S |-> r2.S,
              calls |-> acc.calls \o <<Call("setVolume", region1.id, r1.ok, v1, acc.S),
                                       Call("setVolume", region2.id, r2.ok, v2, r1.S)>>]

\* the body of the inner loop of handleCrossfades for the pair (i, j)
CrossfadePair(acc, activeRegions, position, i, j) ==
  LET region1 == activeRegions[i]
      region2 == activeRegions[j]
      distance1 == calculateDistance(position, region1.center)
      distance2 == calculateDistance(position, region2.center)
      totalDistance == distance1 + distance2
      v1 == crossfadeVolume(baseVolume(region1), distance1, totalDistance)
      v2 == crossfadeVolume(baseVolume(region2), distance2, totalDistance)
      r1 == setVolume(acc.S, region1.id, v1)
      r2 == setVolume(r1.S, region2.id, v2)
  IN  IF ~region1.settings.crossfadeOverlap \/ ~region2.settings.crossfadeOverlap
        THEN acc
        ELSE IF totalDistance = 0
          THEN acc
          ELSE [S |-> r2.S,
                calls |-> acc.calls \o <<Call("setVolume", region1.id, r1.ok, v1, acc.S),
                                         Call("setVolume", region2.id, r2.ok, v2, r1.S)>>]

\* the two nested loops of handleCrossfades, from the pair (i, j) on
RECURSIVE CrossfadeLoop(_, _, _, _, _)
CrossfadeLoop(acc, activeRegions, position, i, j) ==
  IF i > Len(activeRegions) THEN acc
  ELSE IF j > Len(activeRegions)
    THEN CrossfadeLoop(acc, activeRegions, position, i + 1, i + 2)
    ELSE CrossfadeLoop(CrossfadePair(acc, activeRegions, position, i, j),
                       activeRegions, position, i, j + 1)

\* handleCrossfades(activeRegions, position) on service state S:
\* [S |-> the state it leaves, calls |-> the setVolume calls it made]
handleCrossfades(S, activeRegions, position) ==
  IF Len(activeRegions) <= 1
    THEN [S |-> S, calls |-> <<>>]
    ELSE CrossfadeLoop([S |-> S, calls |-> <<>>], activeRegions, position, 1, 2)

(* ---------------- TransitionEngine (orchestrator) --------------------- *)

\* the phase a signed distance to the edge puts a boundary in
Classify(d, R) ==
  IF d <= 0 - R THEN "Inside"
  ELSE IF d <= 0 THEN "Entering"
  ELSE IF d <= R THEN "Exiting"
  ELSE "Outside"

\* the Number NaN among the coordinate values (a quotient with denominator 0)
NaN == <<0, 0>>

\* a position whose lat and lng are numbers within the geographic ranges
\* (a comparison with NaN is false)
ValidPosition_RangeOnly(position) ==
  /\ ~FLt(position.lat, FInt(0 - 90)) /\ ~FLt(FInt(90), position.lat)
  /\ ~FLt(position.lng, FInt(0 - 180)) /\ ~FLt(FInt(180), position.lng)

\* a position that is not malformed: neither coordinate is NaN, lat is within
\* [-90, 90] and lng within [-180, 180]
ValidPosition(position) ==
  /\ position.lat # NaN /\ position.lng # NaN
  /\ FLeq(FInt(0 - 90), position.lat) /\ FLeq(position.lat, FInt(90))
  /\ FLeq(FInt(0 - 180), position.lng) /\ FLeq(position.lng, FInt(180))

\* one position event for boundary b whose edge is at signed distance d of the
\* position: [rt |-> the runtime state of b it leaves, commands |-> the
\* transition it runs]; a malformed position is dropped
HandlePosition(b, position, d) ==
  IF ~ValidPosition(position)
    THEN [rt |-> [phase |-> phase[b], progress |-> progress[b], lastDist |-> lastDist[b]],
          commands |-> "none", d |-> <<>>]
    ELSE LET ph == Classify(d, transitionRadius)
         IN  [rt |-> [phase |-> ph,
                      progress |-> IF ph \in {"Entering", "Inside"}
                                     THEN EntryProgress(d, transitionRadius)
                                     ELSE IF ph = "Exiting"
                                       THEN ExitProgress(d, transitionRadius)
                                       ELSE progress[b],
                      lastDist |-> <<d>>],
              commands |-> IF ph \in {"Entering", "Inside"} THEN "applyEntryTransition"
                           ELSE IF ph = "Exiting" THEN "applyExitTransition"
                           ELSE "none",
              d |-> <<d>>]

TeardownPending(id) == \E i \in 1..Len(timers) : timers[i].id = id

\* playAudio(id, url, options) up to its first await; atCall and late are
\* history: whether id was active, and whether a cleanup for id was
\* scheduled, when the call was made
playAudio(id, options) ==
  [id |-> id, volume |-> options.volume, fadeIn |-> options.fadeIn,
   effects |-> options.effects, atCall |-> sources[id] # 0, late |-> TeardownPending(id)]

\* applyEntryTransition(regionId, audioData, settings, d)
applyEntryTransition(id, type, d) ==
  Append(pending, playAudio(id, EntryOptions(id, type, d)))

Apply(S) ==
  /\ sources' = S.sources
  /\ gainNodes' = S.gainNodes
  /\ effectNodes' = S.effectNodes
  /\ nodes' = S.nodes
  /\ timers' = S.timers

StillPending(S) == {b \in reentered : \E i \in 1..Len(S.timers) : S.timers[i].id = b}

(* ------------------------------ actions ------------------------------- *)

\* a position update that puts boundary b at distance d <= 0: Entering or Inside
EnterUpdate(b, d) ==
  /\ Classify(d, transitionRadius) \in {"Entering", "Inside"}
  /\ Len(pending) < MaxPending
  /\ Len(nodes) + Len(pending) < MaxSources
  /\ pending' = applyEntryTransition(b, settings[b].fadeInType, d)
  /\ lastDist' = [lastDist EXCEPT ![b] = <<d>>]
  /\ phase' = [phase EXCEPT ![b] = Classify(d, transitionRadius)]
  /\ progress' = [progress EXCEPT ![b] = EntryProgress(d, transitionRadius)]
  /\ reentered' = IF Classify(d, transitionRadius) = "Entering" /\ TeardownPending(b)
                    THEN reentered \cup {b} ELSE reentered
  /\ calls' = <<>>
  /\ lastFire' = NoFire
  /\ UNCHANGED <<recorder, input, output, sources, gainNodes, effectNodes, nodes, timers, settings>>

\* a position update that puts boundary b at distance 0 < d <= R: Exiting
ExitUpdate(b, d) ==
  /\ Classify(d, transitionRadius) = "Exiting"
  /\ Len(timers) < MaxTimers
  /\ LET r == applyExitTransition(Svc, b, settings[b].fadeOutType, d)
     IN  /\ Apply(r.S)
         /\ calls' = r.calls
  /\ lastDist' = [lastDist EXCEPT ![b] = <<d>>]
  /\ phase' = [phase EXCEPT ![b] = "Exiting"]
  /\ progress' = [progress EXCEPT ![b] = ExitProgress(d, transitionRadius)]
  /\ lastFire' = NoFire
  /\ UNCHANGED <<recorder, input, output, pending, settings, reentered>>

\* a position update that puts boundary b beyond the transition radius
OutsideUpdate(b, d) ==
  /\ Classify(d, transitionRadius) = "Outside"
  /\ lastDist' = [lastDist EXCEPT ![b] = <<d>>]
  /\ phase' = [phase EXCEPT ![b] = "Outside"]
  /\ calls' = <<>>
  /\ lastFire' = NoFire
  /\ UNCHANGED <<recorder, input, output, sources, gainNodes, effectNodes, nodes, pending, timers, settings,
                 progress, reentered>>

\* fetch and decode of the i-th suspended playAudio succeed: it runs to its return
PlayResolve(i) ==
  /\ i \in 1..Len(pending)
  /\ LET p == pending[i]
         S == Register(Svc, p)
     IN  /\ Apply(S)
         /\ calls' = <<Call("playAudio", p.id, TRUE, p.volume, Svc)
                       @@ [atCall |-> p.atCall, made |-> Len(S.nodes) - Len(nodes)]>>
  /\ pending' = RemoveAt(pending, i)
  /\ lastFire' = NoFire
  /\ UNCHANGED <<recorder, input, output, settings, lastDist, phase, progress, reentered>>

\* fetch or decode of the i-th suspended playAudio fails: the catch returns false
PlayReject(i) ==
  /\ i \in 1..Len(pending)
  /\ LET p == pending[i]
     IN  calls' = <<Call("playAudio", p.id, FALSE, p.volume, Svc)
                    @@ [atCall |-> p.atCall, made |-> 0]>>
  /\ pending' = RemoveAt(pending, i)
  /\ lastFire' = NoFire
  /\ UNCHANGED <<recorder, input, output, sources, gainNodes, effectNodes, nodes, timers, settings,
                 lastDist, phase, progress, reentered>>

\* the i-th suspended playAudio gets past its awaits and then throws while it
\* builds the effect chain (none of it built yet) or starts the source (all of
\* it built): the catch returns false
PlayThrow(i) ==
  /\ i \in 1..Len(pending)
  /\ \E built \in {{}, pending[i].effects} :
       LET p == pending[i]
           S == RegisterThrown(Svc, p, built)
       IN  /\ Apply(S)
           /\ calls' = <<Call("playAudio", p.id, FALSE, p.volume, Svc)
                         @@ [atCall |-> p.atCall, made |-> 1]>>
  /\ pending' = RemoveAt(pending, i)
  /\ lastFire' = NoFire
  /\ UNCHANGED <<recorder, input, output, settings, lastDist, phase, progress, reentered>>

\* the cleanup scheduled by stopAudio runs
StopFire(i) ==
  /\ i \in 1..Len(timers)
  /\ timers[i].kind = "stop"
  /\ Due(i)
  /\ LET t == timers[i]
         cur == sources[t.id]
         orphan == IF cur # 0 /\ cur # t.src /\ nodes[cur].playing THEN cur ELSE 0
         S == StopCleanup([Svc EXCEPT !.timers = RemoveAt(timers, i)], t)
     IN  /\ Apply(S)
         /\ lastFire' = [kind |-> "stop", id |-> t.id, stale |-> t.id \in reentered,
                         harmed |-> cur # 0 \/ nodes[t.src].playing,
                         orphan |-> orphan,
                         late |-> orphan # 0 /\ nodes[orphan].late]
         /\ reentered' = StillPending(S)
  /\ calls' = <<>>
  /\ UNCHANGED <<recorder, input, output, pending, settings, lastDist, phase, progress>>

\* the cleanup scheduled by fadeOutAudio runs
FadeFire(i) ==
  /\ i \in 1..Len(timers)
  /\ timers[i].kind = "fade"
  /\ Due(i)
  /\ LET t == timers[i]
         S == FadeCleanup([Svc EXCEPT !.timers = RemoveAt(timers, i)], t)
     IN  /\ Apply(S)
         /\ lastFire' = [kind |-> "fade", id |-> t.id, stale |-> t.id \in reentered,
                         harmed |-> sources[t.id] # 0, orphan |-> 0, late |-> FALSE]
         /\ reentered' = StillPending(S)
  /\ calls' = <<>>
  /\ UNCHANGED <<recorder, input, output, pending, settings, lastDist, phase, progress>>

Next ==
  \/ \E b \in Boundaries, d \in Distances : EnterUpdate(b, d)
  \/ \E b \in Boundaries, d \in Distances : ExitUpdate(b, d)
  \/ \E b \in Boundaries, d \in Distances : OutsideUpdate(b, d)
  \/ \E i \in 1..MaxPending : PlayResolve(i)
  \/ \E i \in 1..MaxPending : PlayReject(i)
  \/ \E i \in 1..MaxTimers : StopFire(i)
  \/ \E i \in 1..MaxTimers : FadeFire(i)

Spec == Init /\ [][Next]_vars

\* sessions in which the Web Audio calls playAudio makes after decoding may
\* throw as well
ThrowNext ==
  \/ Next
  \/ \E i \in 1..MaxPending : PlayThrow(i)

ThrowSpec == Init /\ [][ThrowNext]_vars

\* setTimeout callbacks run once they are due
FairSpec ==
  /\ Spec
  /\ \A i \in 1..MaxTimers : WF_vars(StopFire(i)) /\ WF_vars(FadeFire(i))

TypeOK ==
  /\ \A b \in Boundaries : sources[b] \in 0..Len(nodes)
  /\ Len(pending) <= MaxPending
  /\ Len(timers) <= MaxTimers

(* --------------------------- map utilities ----------------------------- *)
(* Points are [lat, lng] with integer coordinates; quotients are exact.    *)
(* A distance distanceToLine returns is sqrt(q) * 111000 for a rational q: *)
(* the model keeps q, which orders distances as the code's values do and   *)
(* is 0 exactly when the distance is.                                      *)

\* distanceToLine(x, y, x1, y1, x2, y2): q for the distance of (x, y) to the
\* segment from (x1, y1) to (x2, y2)
distanceToLine(x, y, x1, y1, x2, y2) ==
  LET A == x - x1
      B == y - y1
      C == x2 - x1
      D == y2 - y1
      dot == A * C + B * D
      len_sq == C * C + D * D
      param == IF len_sq # 0 THEN Frac(dot, len_sq) ELSE FInt(0 - 1)
      xx == IF FLt(param, Zero) THEN FInt(x1)
            ELSE IF FLt(One, param) THEN FInt(x2)
            ELSE FAdd(FInt(x1), FMul(param, FInt(C)))
      yy == IF FLt(param, Zero) THEN FInt(y1)
            ELSE IF FLt(One, param) THEN FInt(y2)
            ELSE FAdd(FInt(y1), FMul(param, FInt(D)))
      dx == FSub(FInt(x), xx)
      dy == FSub(FInt(y), yy)
  IN  FAdd(FMul(dx, dx), FMul(dy, dy))

\* the index j the ray-casting loop pairs with i: the previous vertex, the
\* last one for the first
PrevIndex(polygon, i) == IF i = 1 THEN Len(polygon) ELSE i - 1

\* the test of one edge in isPointInPolygon
Intersects(point, polygon, i) ==
  LET xi == polygon[i].lng
      yi == polygon[i].lat
      xj == polygon[PrevIndex(polygon, i)].lng
      yj == polygon[PrevIndex(polygon, i)].lat
  IN  IF (yi > point.lat) = (yj > point.lat)
        THEN FALSE
        ELSE FLt(FInt(point.lng),
                 FAdd(Frac((xj - xi) * (point.lat - yi), yj - yi), FInt(xi)))

\* a ray cast that leaves out the edge from the last vertex to the first
isPointInPolygon_NoClosingEdge(point, polygon) ==
  Cardinality({i \in 2..Len(polygon) : Intersects(point, polygon, i)}) % 2 = 1

\* isPointInPolygon(point, polygon): inside is toggled once per intersecting edge
isPointInPolygon(point, polygon) ==
  Cardinality({i \in 1..Len(polygon) : Intersects(point, polygon, i)}) % 2 = 1

\* the least of a non-empty set of quotients (Math.min folded from Infinity)
MinOf(S) == CHOOSE m \in S : \A q \in S : FLeq(m, q)

\* the distance of position to edge i of polygon, edge Len(polygon) being the
\* closing edge back to the first vertex
EdgeDistance(position, polygon, i) ==
  LET p1 == polygon[i]
      p2 == polygon[(i % Len(polygon)) + 1]
  IN  distanceToLine(position.lat, position.lng, p1.lat, p1.lng, p2.lat, p2.lng)

\* a nearest-edge search that leaves out the closing edge
getDistanceToBoundaryEdge_OpenPath(position, polygon) ==
  [neg |-> isPointInPolygon(position, polygon),
   q |-> MinOf({EdgeDistance(position, polygon, i) : i \in 1..(Len(polygon) - 1)})]

\* getDistanceToBoundaryEdge(position, polygon): the value returned is
\* -minDistance when neg and minDistance otherwise, minDistance = sqrt(q) * 111000
getDistanceToBoundaryEdge(position, polygon) ==
  [neg |-> isPointInPolygon(position, polygon),
   q |-> MinOf({EdgeDistance(position, polygon, i) : i \in 1..Len(polygon)})]

\* largest index of the grid polygon vertices are drawn from
MaxGrid == 1

\* the vertices polygons are drawn from, and the positions tested against
\* them (three positions per vertex spacing)
GridVertices == {[lat |-> 3 * i, lng |-> 3 * j] : i, j \in 0..MaxGrid}
GridPositions == {[lat |-> i, lng |-> j] : i, j \in 0..(3 * MaxGrid)}

\* polygons of three or four distinct vertices, in any order
Polygons ==
  {pg \in [1..3 -> GridVertices] \cup [1..4 -> GridVertices] :
     \A i, j \in DOMAIN pg : i # j => pg[i] # pg[j]}

GeoInit ==
  /\ Idle
  /\ settings = [b \in Boundaries |-> [fadeInType |-> VOLUME_FADE, fadeOutType |-> VOLUME_FADE]]
  /\ input \in [fn : {"isPointInPolygon", "getDistanceToBoundaryEdge"},
                position : GridPositions, polygon : Polygons]
  /\ output = <<>>

EvalIsPointInPolygon ==
  /\ input.fn = "isPointInPolygon"
  /\ output = <<>>
  /\ output' = <<isPointInPolygon(input.position, input.polygon)>>
  /\ UNCHANGED <<recorder, sources, gainNodes, effectNodes, nodes, pending, timers, settings,
                 lastDist, phase, progress, calls, reentered, lastFire, input>>

EvalGetDistanceToBoundaryEdge ==
  /\ input.fn = "getDistanceToBoundaryEdge"
  /\ output = <<>>
  /\ output' = <<getDistanceToBoundaryEdge(input.position, input.polygon)>>
  /\ UNCHANGED <<recorder, sources, gainNodes, effectNodes, nodes, pending, timers, settings,
                 lastDist, phase, progress, calls, reentered, lastFire, input>>

GeoNext == EvalIsPointInPolygon \/ EvalGetDistanceToBoundaryEdge

GeoSpec == GeoInit /\ [][GeoNext]_vars

(* --------------------------- simplifyPolygon --------------------------- *)
(* A point object is [ref, lat, lng]: ref is the identity of the object,   *)
(* so that two entries of an array are the same object exactly when they   *)
(* are equal records. A tolerance t >= 0 is held as (t / 111000)^2, the    *)
(* quantity the q of distanceToLine is compared with.                      *)

\* a membership test that compares coordinates instead of references
Includes_ByValue(result, point) ==
  \E k \in DOMAIN result : result[k].lat = point.lat /\ result[k].lng = point.lng

\* result.includes(point): the same object is already in result
Includes(result, point) == \E k \in DOMAIN result : result[k] = point

RECURSIVE FurthestFrom(_, _, _, _, _)
\* the loop of findFurthestPoint from index i on, best being
\* { maxDistance, maxIndex } so far
FurthestFrom(points, start, end, i, best) ==
  IF i >= end
    THEN best
    ELSE LET distance == distanceToLine(points[i].lat, points[i].lng,
                                        points[start].lat, points[start].lng,
                                        points[end].lat, points[end].lng)
         IN  FurthestFrom(points, start, end, i + 1,
                          IF FLt(best.maxDistance, distance)
                            THEN [maxDistance |-> distance, maxIndex |-> i]
                            ELSE best)

\* findFurthestPoint(start, end); maxIndex starts at the first index
findFurthestPoint(points, start, end) ==
  FurthestFrom(points, start, end, start + 1, [maxDistance |-> Zero, maxIndex |-> 1])

RECURSIVE simplifySegment(_, _, _, _, _)
\* simplifySegment(start, end, result): result after the call
simplifySegment(points, tolerance, start, end, result) ==
  LET furthest == findFurthestPoint(points, start, end)
  IN  IF FLt(tolerance, furthest.maxDistance)
        THEN simplifySegment(points, tolerance, furthest.maxIndex, end,
               simplifySegment(points, tolerance, start, furthest.maxIndex, result))
        ELSE IF Includes(result, points[end])
               THEN result
               ELSE Append(result, points[end])

\* simplifyPolygon(points, tolerance)
simplifyPolygon(points, tolerance) ==
  IF Len(points) <= 2
    THEN points
    ELSE simplifySegment(points, tolerance, 1, Len(points), <<points[1]>>)

\* largest number of points of a sequence handed to simplifyPolygon
MaxPoints == 5

\* the point objects sequences are drawn from: one per grid coordinate, and a
\* second object at the coordinates of the first
PointObjects ==
  {[ref |-> 2 * i + j, lat |-> i, lng |-> j] : i \in 0..2, j \in 0..1}
    \cup {[ref |-> 6, lat |-> 0, lng |-> 0]}

\* point sequences, the same object possibly at several indexes
PointSequences == UNION {[1..n -> PointObjects] : n \in 2..MaxPoints}

\* the tolerances simplifyPolygon is called with
Tolerances == {Zero, Frac(1, 2)}

SimplifyInit ==
  /\ Idle
  /\ settings = [b \in Boundaries |-> [fadeInType |-> VOLUME_FADE, fadeOutType |-> VOLUME_FADE]]
  /\ input \in [fn : {"simplifyPolygon"}, points : PointSequences, tolerance : Tolerances]
  /\ output = <<>>

\* simplifyPolygon(points, tolerance)
EvalSimplifyPolygon ==
  /\ input.fn = "simplifyPolygon"
  /\ output = <<>>
  /\ output' = <<simplifyPolygon(input.points, input.tolerance)>>
  /\ UNCHANGED <<recorder, sources, gainNodes, effectNodes, nodes, pending, timers, settings,
                 lastDist, phase, progress, calls, reentered, lastFire, input>>

\* simplifyPolygon(simplified, tolerance), simplified being the array the
\* first call returned
EvalSimplifyAgain ==
  /\ input.fn = "simplifyPolygon"
  /\ Len(output) = 1
  /\ output' = Append(output, simplifyPolygon(output[1], input.tolerance))
  /\ UNCHANGED <<recorder, sources, gainNodes, effectNodes, nodes, pending, timers, settings,
                 lastDist, phase, progress, calls, reentered, lastFire, input>>

SimplifyNext == EvalSimplifyPolygon \/ EvalSimplifyAgain

SimplifySpec == SimplifyInit /\ [][SimplifyNext]_vars

(* ------------------------ transition curves --------------------------- *)
(* The parameter value an entry update hands to playAudio in               *)
(* options.effects and an exit update hands to applyEffect, as a function  *)
(* of the progress the update computed.                                    *)

\* the types whose parameter is interpolated between start and end
LinearTypes == {LOWPASS_FILTER, HIGHPASS_FILTER, REVERB_TAIL, PITCH_SHIFT, DELAY_FEEDBACK}

\* the advancedSettings entry each of them interpolates
InterpolatedSetting(type) ==
  CASE type = LOWPASS_FILTER -> "lowpassFrequency"
    [] type = HIGHPASS_FILTER -> "highpassFrequency"
    [] type = REVERB_TAIL -> "reverbMix"
    [] type = PITCH_SHIFT -> "pitchShift"
    [] type = DELAY_FEEDBACK -> "delayFeedback"

\* defaultSettings.advancedSettings, the interpolated entries
defaultAdvancedSettings ==
  [lowpassFrequency |-> [start |-> FInt(20000), end |-> FInt(500)],
   highpassFrequency |-> [start |-> FInt(20), end |-> FInt(2000)],
   reverbMix |-> [start |-> <<1, 10>>, end |-> <<7, 10>>],
   pitchShift |-> [start |-> Zero, end |-> FInt(0 - 4)],
   delayFeedback |-> [start |-> <<1, 10>>, end |-> <<7, 10>>]]

\* an entry curve that runs from start to end
EntryParameter_FromStart(type, p, advancedSettings) ==
  LET range == advancedSettings[InterpolatedSetting(type)]
  IN  FAdd(range.start, FMul(p, FSub(range.end, range.start)))

\* applyEntryTransition, the five interpolating cases: the value of
\* lowpassFrequency / highpassFrequency / reverbMix / pitchAmount / delayFeedback
EntryParameter(type, p, advancedSettings) ==
  LET startValue == advancedSettings[InterpolatedSetting(type)].end
      endValue == advancedSettings[InterpolatedSetting(type)].start
  IN  FAdd(startValue, FMul(p, FSub(endValue, startValue)))

\* an exit curve driven by progress instead of 1 - progress
ExitParameter_NotComplemented(type, p, advancedSettings) ==
  LET range == advancedSettings[InterpolatedSetting(type)]
  IN  FAdd(range.start, FMul(p, FSub(range.end, range.start)))

\* applyExitTransition, the five interpolating cases: the value of
\* frequency / mix / amount / feedback
ExitParameter(type, p, advancedSettings) ==
  LET startValue == advancedSettings[InterpolatedSetting(type)].start
      endValue == advancedSettings[InterpolatedSetting(type)].end
  IN  FAdd(startValue, FMul(FSub(One, p), FSub(endValue, startValue)))

\* applyEntryTransition, DOPPLER: dopplerShift
EntryDopplerShift(p) ==
  IF FLt(p, <<1, 2>>)
    THEN FAdd(One, FMul(FSub(<<1, 2>>, p), <<1, 10>>))
    ELSE One

\* applyExitTransition, DOPPLER: dopplerShift
ExitDopplerShift(p) ==
  IF FLt(<<1, 2>>, p)
    THEN FSub(One, FMul(FSub(p, <<1, 2>>), <<1, 10>>))
    ELSE One

\* the number of equal steps progress is sampled in
MaxSteps == 20

\* the progress values sampled: 0, 1/MaxSteps, ..., 1
ProgressSamples == {Frac(k, MaxSteps) : k \in 0..MaxSteps}

\* the advancedSettings drawn: the defaults, and every start / end pair of a
\* few values given to all five entries
AdvancedSettingsInputs ==
  {defaultAdvancedSettings}
    \cup {[key \in DOMAIN defaultAdvancedSettings |-> range] :
            range \in [start : {FInt(0 - 4), Zero, <<1, 10>>, One, FInt(20)},
                       end : {FInt(0 - 4), Zero, <<1, 10>>, One, FInt(20)}]}

CurveInit ==
  /\ Idle
  /\ settings = [b \in Boundaries |-> [fadeInType |-> VOLUME_FADE, fadeOutType |-> VOLUME_FADE]]
  /\ input \in [fn : {"entryParameter", "exitParameter"}, type : LinearTypes,
                progress : ProgressSamples, advancedSettings : AdvancedSettingsInputs]
              \cup [fn : {"entryDoppler", "exitDoppler"}, progress : ProgressSamples]
  /\ output = <<>>

EvalEntryParameter ==
  /\ input.fn = "entryParameter"
  /\ output = <<>>
  /\ output' = <<EntryParameter(input.type, input.progress, input.advancedSettings)>>
  /\ UNCHANGED <<recorder, sources, gainNodes, effectNodes, nodes, pending, timers, settings,
                 lastDist, phase, progress, calls, reentered, lastFire, input>>

EvalExitParameter ==
  /\ input.fn = "exitParameter"
  /\ output = <<>>
  /\ output' = <<ExitParameter(input.type, input.progress, input.advancedSettings)>>
  /\ UNCHANGED <<recorder, sources, gainNodes, effectNodes, nodes, pending, timers, settings,
                 lastDist, phase, progress, calls, reentered, lastFire, input>>

\* pitchAmount: dopplerShift - 1
EvalEntryDoppler ==
  /\ input.fn = "entryDoppler"
  /\ output = <<>>
  /\ output' = <<FSub(EntryDopplerShift(input.progress), One)>>
  /\ UNCHANGED <<recorder, sources, gainNodes, effectNodes, nodes, pending, timers, settings,
                 lastDist, phase, progress, calls, reentered, lastFire, input>>

\* amount: dopplerShift - 1
EvalExitDoppler ==
  /\ input.fn = "exitDoppler"
  /\ output = <<>>
  /\ output' = <<FSub(ExitDopplerShift(input.progress), One)>>
  /\ UNCHANGED <<recorder, sources, gainNodes, effectNodes, nodes, pending, timers, settings,
                 lastDist, phase, progress, calls, reentered, lastFire, input>>

CurveNext ==
  \/ EvalEntryParameter
  \/ EvalExitParameter
  \/ EvalEntryDoppler
  \/ EvalExitDoppler

CurveSpec == CurveInit /\ [][CurveNext]_vars

(* --------------------- PathMapGenerator.simplifyPath ------------------- *)
(* A path is the sequence of its coordinate strings; the k-th string of a   *)
(* path is written k. Index i of the code is index i + 1 here.              *)

RECURSIVE PathLoop(_, _, _, _)
\* for (let i = step; i < path.length - step; i += step) result.push(path[i]),
\* from index i on
PathLoop(path, step, i, result) ==
  IF i < Len(path) - step
    THEN PathLoop(path, step, i + step, Append(result, path[i + 1]))
    ELSE result

\* simplifyPath(path, maxPoints), maxPoints >= 2. For maxPoints = 2 the step is
\* Math.floor(path.length / 0) = Infinity and the loop body never runs
simplifyPath(path, maxPoints) ==
  IF Len(path) <= maxPoints
    THEN path
    ELSE IF maxPoints - 2 = 0
      THEN <<path[1], path[Len(path)]>>
      ELSE LET step == Len(path) \div (maxPoints - 2)
           IN  Append(PathLoop(path, step, step, <<path[1]>>), path[Len(path)])

\* largest number of points of a path and largest maxPoints
MaxPathLength == 12
MaxKeep == 8

PathInit ==
  /\ Idle
  /\ settings = [b \in Boundaries |-> [fadeInType |-> VOLUME_FADE, fadeOutType |-> VOLUME_FADE]]
  /\ input \in [fn : {"simplifyPath"}, length : 1..MaxPathLength, maxPoints : 2..MaxKeep]
  /\ output = <<>>

\* simplifyPath(path, maxPoints) on the path of input.length points
EvalSimplifyPath ==
  /\ input.fn = "simplifyPath"
  /\ output = <<>>
  /\ output' = <<simplifyPath([k \in 1..input.length |-> k], input.maxPoints)>>
  /\ UNCHANGED <<recorder, sources, gainNodes, effectNodes, nodes, pending, timers, settings,
                 lastDist, phase, progress, calls, reentered, lastFire, input>>

PathNext == EvalSimplifyPath

PathSpec == PathInit /\ [][PathNext]_vars

(* ------------------------ PathRecorderService -------------------------- *)
(* Positions lie on one meridian and are written as their northing in       *)
(* metres. Each operation maps the recorder r to the recorder it leaves.    *)

\* settings.minDistance (metres)
minDistance == 2

\* calculateDistance of MapUtils (Haversine, metres) for two points of one
\* meridian, where R * c is R * |dLat|: the difference of the northings
MapUtils_calculateDistance(point1, point2) == Abs(point2 - point1)

\* captureAudioState(): push a snapshot of audioService.getActiveAudio()
captureAudioState(r) == [r EXCEPT !.recordedAudio = Append(@, getActiveAudio)]

\* startRecording(compositionId) where navigator.geolocation exists
startRecording(r) ==
  IF r.isRecording
    THEN [r EXCEPT !.returned = "false"]
    ELSE [r EXCEPT !.isRecording = TRUE, !.recordedPath = <<>>, !.recordedAudio = <<>>,
                   !.pathPolyline = <<>>, !.watching = TRUE, !.recordingInterval = TRUE,
                   !.submitted = 0, !.overdue = FALSE, !.returned = "true"]

\* a capturePosition that records every position that differs from the last
capturePosition_AnyMove(r, newPoint) ==
  IF \/ Len(r.recordedPath) = 0
     \/ MapUtils_calculateDistance(r.recordedPath[Len(r.recordedPath)], newPoint) > 0
    THEN captureAudioState([r EXCEPT !.recordedPath = Append(@, newPoint),
                                     !.pathPolyline = Append(r.recordedPath, newPoint),
                                     !.returned = "undefined"])
    ELSE [r EXCEPT !.returned = "undefined"]

\* capturePosition(position); settings.includeAudioSnapshot is true
capturePosition(r, newPoint) ==
  IF \/ Len(r.recordedPath) = 0
     \/ MapUtils_calculateDistance(r.recordedPath[Len(r.recordedPath)], newPoint)
          >= minDistance
    THEN captureAudioState([r EXCEPT !.recordedPath = Append(@, newPoint),
                                     !.pathPolyline = Append(r.recordedPath, newPoint),
                                     !.returned = "undefined"])
    ELSE [r EXCEPT !.returned = "undefined"]

\* a stopRecording that clears isRecording only after generateComposition
\* has returned
stopRecording_FlagAfterAwait(r) ==
  IF ~r.isRecording /\ r.awaiting = 0
    THEN [r EXCEPT !.returned = "null"]
    ELSE LET stopped == [captureAudioState(r) EXCEPT !.watching = FALSE,
                                                     !.recordingInterval = FALSE]
         IN  IF Len(r.recordedPath) >= 2
               THEN [stopped EXCEPT !.awaiting = @ + 1, !.submitted = @ + 1,
                                    !.returned = "pending"]
               ELSE [stopped EXCEPT !.isRecording = FALSE, !.returned = "null"]

\* stopRecording() up to its await: returned is "pending" while the call waits
\* for generateComposition
stopRecording(r) ==
  IF ~r.isRecording
    THEN [r EXCEPT !.returned = "null"]
    ELSE LET stopped == [captureAudioState(r) EXCEPT !.watching = FALSE,
                                                     !.recordingInterval = FALSE,
                                                     !.isRecording = FALSE]
         IN  IF Len(r.recordedPath) >= 2
               THEN [stopped EXCEPT !.awaiting = @ + 1, !.submitted = @ + 1,
                                    !.returned = "pending"]
               ELSE [stopped EXCEPT !.returned = "null"]

\* the callback startRecording hands to setInterval
IntervalCallback(r) ==
  LET snapped == captureAudioState(r)
  IN  IF r.overdue THEN stopRecording(snapped) ELSE [snapped EXCEPT !.returned = "undefined"]

\* largest northing of a position, and the largest numbers of recorded
\* points, audio snapshots and unanswered generateComposition calls
MaxNorthing == 4
MaxRecorded == 3
MaxSnapshots == 4
MaxAwaiting == 2

\* the recorder has room for the points, the snapshots and the
\* generateComposition call one more step may add
Room(r, points, snapshots, submits) ==
  /\ Len(r.recordedPath) + points <= MaxRecorded
  /\ Len(r.recordedAudio) + snapshots <= MaxSnapshots
  /\ r.awaiting + submits <= MaxAwaiting

RecorderFrame ==
  UNCHANGED <<sources, gainNodes, effectNodes, nodes, pending, timers, settings,
              lastDist, phase, progress, calls, reentered, lastFire, input, output>>

RecorderInit ==
  /\ Idle
  /\ settings = [b \in Boundaries |-> [fadeInType |-> VOLUME_FADE, fadeOutType |-> VOLUME_FADE]]
  /\ input = <<>>
  /\ output = <<>>

StartRecording ==
  /\ recorder' = startRecording(recorder)
  /\ RecorderFrame

\* the geolocation watch delivers a position
CapturePosition(newPoint) ==
  /\ recorder.watching
  /\ Room(recorder, 1, 1, 0)
  /\ recorder' = capturePosition(recorder, newPoint)
  /\ RecorderFrame

\* Date.now() - recordingStartTime passes settings.maxDuration
MaxDurationPasses ==
  /\ recorder.isRecording
  /\ ~recorder.overdue
  /\ recorder' = [recorder EXCEPT !.overdue = TRUE]
  /\ RecorderFrame

\* the recording interval fires
IntervalFire ==
  /\ recorder.recordingInterval
  /\ Room(recorder, 0, 2, 1)
  /\ recorder' = IntervalCallback(recorder)
  /\ RecorderFrame

\* stopRecording() called by the user interface
StopRecording ==
  /\ Room(recorder, 0, 1, 1)
  /\ recorder' = stopRecording(recorder)
  /\ RecorderFrame

\* the server answers a generateComposition call: the stopRecording that
\* awaited it returns the composition, or null when the call failed
ComposeReturn(ok) ==
  /\ recorder.awaiting > 0
  /\ recorder' = [recorder EXCEPT !.awaiting = @ - 1,
                                  !.returned = IF ok THEN "composition" ELSE "null"]
  /\ RecorderFrame

RecorderNext ==
  \/ StartRecording
  \/ \E newPoint \in 0..MaxNorthing : CapturePosition(newPoint)
  \/ MaxDurationPasses
  \/ IntervalFire
  \/ StopRecording
  \/ \E ok \in BOOLEAN : ComposeReturn(ok)

RecorderSpec == RecorderInit /\ [][RecorderNext]_vars

(* ------------- evaluation of the progress expressions ------------------ *)

\* largest |distance| and largest transition radius the expressions are evaluated on
MaxEvalDist == 8
MaxEvalRadius == 4

\* largest latitude of a region centre on the listener's meridian
MaxCoord == 2

\* the regions that can be active together
RegionIds == {1, 2, 3}

\* the listener's position
Origin == [lat |-> 0, lng |-> 0]

\* what is drawn for each active region: its crossfadeOverlap and volume
\* settings (volume absent, 0 or 1/2) and the latitude of its centre
RegionInputs ==
  [crossfadeOverlap : BOOLEAN, volume : {<<>>, <<Zero>>, <<<<1, 2>>>>},
   center : 0..MaxCoord]

\* the activeRegions array drawn: region i of the list has id i
ActiveRegions(rs) ==
  [i \in DOMAIN rs |->
     [id |-> i,
      settings |-> [crossfadeOverlap |-> rs[i].crossfadeOverlap, volume |-> rs[i].volume],
      center |-> [lat |-> rs[i].center, lng |-> 0]]]

\* the service with n regions entered and playing at full progress
Playing(n) ==
  [sources |-> [b \in 1..n |-> b],
   gainNodes |-> [b \in 1..n |-> b],
   effectNodes |-> [b \in 1..n |-> b],
   nodes |-> [k \in 1..n |-> [id |-> k, playing |-> TRUE, start |-> Zero, gain |-> One,
                              fadeIn |-> fadeInLength, effects |-> {}, late |-> FALSE]],
   timers |-> <<>>]

\* the coordinates position events are drawn with: NaN, the ends of the
\* geographic range and the first values beyond them
Latitudes == {NaN, FInt(0 - 91), FInt(0 - 90), FInt(0), FInt(90), FInt(91)}
Longitudes == {NaN, FInt(0 - 181), FInt(0 - 180), FInt(0), FInt(180), FInt(181)}

\* one evaluation: a signed distance d and a transition radius R > 0, an exit
\* update of one type, or a list of active regions to crossfade
EvalInit ==
  /\ Idle
  /\ input \in [fn : {"entry", "exit"}, d : (0 - MaxEvalDist)..MaxEvalDist,
                R : 1..MaxEvalRadius]
              \cup [fn : {"exitTransition"},
                    type : transitionTypes \cup {UnlistedType, AbsentType},
                    d : 1..transitionRadius]
              \cup [fn : {"entryTransition"},
                    type : transitionTypes \cup {UnlistedType, AbsentType},
                    d : (0 - transitionRadius)..transitionRadius]
              \cup [fn : {"position"}, lat : Latitudes, lng : Longitudes, d : Distances]
              \cup [fn : {"handleCrossfades"},
                    regions : UNION {[1..n -> RegionInputs] : n \in 1..Cardinality(RegionIds)}]
  /\ output = <<>>

EvalEntryProgress ==
  /\ input.fn = "entry"
  /\ output = <<>>
  /\ output' = <<EntryProgress(input.d, input.R)>>
  /\ UNCHANGED <<recorder, sources, gainNodes, effectNodes, nodes, pending, timers, settings,
                 lastDist, phase, progress, calls, reentered, lastFire, input>>

EvalExitProgress ==
  /\ input.fn = "exit"
  /\ output = <<>>
  /\ output' = <<ExitProgress(input.d, input.R)>>
  /\ UNCHANGED <<recorder, sources, gainNodes, effectNodes, nodes, pending, timers, settings,
                 lastDist, phase, progress, calls, reentered, lastFire, input>>

\* the service after a boundary with the given type both ways was entered and
\* its playAudio returned: one active source carrying the type's effect chain
Entered(id, type) ==
  Register(Svc, playAudio(id, EntryOptions(id, type, 0 - transitionRadius)))

\* one exit update of an entered boundary at distance input.d of the edge
EvalExitTransition ==
  /\ input.fn = "exitTransition"
  /\ output = <<>>
  /\ output' = <<applyExitTransition(Entered(1, input.type), 1, input.type, input.d)>>
  /\ UNCHANGED <<recorder, sources, gainNodes, effectNodes, nodes, pending, timers, settings,
                 lastDist, phase, progress, calls, reentered, lastFire, input>>

\* one entry update of a boundary that has no source: the playAudio calls issued
EvalEntryTransition ==
  /\ input.fn = "entryTransition"
  /\ output = <<>>
  /\ output' = <<applyEntryTransition(1, input.type, input.d)>>
  /\ UNCHANGED <<recorder, sources, gainNodes, effectNodes, nodes, pending, timers, settings,
                 lastDist, phase, progress, calls, reentered, lastFire, input>>

\* one position event for boundary 1 before its first valid position
EvalHandlePosition ==
  /\ input.fn = "position"
  /\ output = <<>>
  /\ output' = <<HandlePosition(1, [lat |-> input.lat, lng |-> input.lng], input.d)>>
  /\ UNCHANGED <<recorder, sources, gainNodes, effectNodes, nodes, pending, timers, settings,
                 lastDist, phase, progress, calls, reentered, lastFire, input>>

\* one handleCrossfades call while every listed region is playing
EvalHandleCrossfades ==
  /\ input.fn = "handleCrossfades"
  /\ output = <<>>
  /\ output' = <<handleCrossfades(Playing(Len(input.regions)),
                                  ActiveRegions(input.regions), Origin)>>
  /\ UNCHANGED <<recorder, sources, gainNodes, effectNodes, nodes, pending, timers, settings,
                 lastDist, phase, progress, calls, reentered, lastFire, input>>

EvalNext ==
  \/ EvalEntryProgress
  \/ EvalExitProgress
  \/ EvalExitTransition
  \/ EvalEntryTransition
  \/ EvalHandlePosition
  \/ EvalHandleCrossfades

EvalSpec == EvalInit /\ [][EvalNext]_vars

(* ------------------------------ claims -------------------------------- *)

Live(b) == {k \in 1..Len(nodes) : nodes[k].id = b /\ nodes[k].playing}

CallsOf(fns) == {i \in 1..Len(calls) : calls[i].fn \in fns}

\* C1: at most one live (started, not yet stopped) audio source exists per
\* boundary id; an entry into a boundary that owns a live source creates no
\* second one.
C1_AtMostOneLiveSource == \A b \in Boundaries : Cardinality(Live(b)) <= 1

\* C2: a start issued while a cleanup for the id is scheduled is never left,
\* once that cleanup has run, as a playing source the manager no longer
\* tracks (a leaked voice).
C2_NoLeakedVoice == ~(lastFire.orphan # 0 /\ lastFire.late)

\* C3: once a boundary with a scheduled cleanup has received a new Entering
\* event, that cleanup is cancelled: when it runs it neither stops nor releases
\* the boundary's source.
C3_ReentryCancelsStop == ~(lastFire.stale /\ lastFire.harmed)

\* C4: playAudio on an id that is active (when called and when it registers)
\* returns failure and creates no source.
C4_StartOnActiveFails ==
  \A i \in CallsOf({"playAudio"}) :
    (calls[i].atCall /\ calls[i].wasActive) => (~calls[i].ok /\ calls[i].made = 0)

\* C5: stopAudio, fadeOutAudio, setVolume and applyEffect on an id that is not
\* active return false, change nothing in the manager and schedule no cleanup.
C5_UnknownIdFails ==
  [][\A b \in Boundaries :
       (/\ sources[b] = 0
        /\ \E i \in 1..Len(calls') :
             /\ calls'[i].id = b
             /\ calls'[i].fn \in {"stopAudio", "fadeOutAudio", "setVolume", "applyEffect"})
       => (/\ \A i \in 1..Len(calls') : ~calls'[i].ok
           /\ UNCHANGED <<sources, gainNodes, effectNodes, nodes, timers>>)]_vars

C5_Witness ==
  \E i \in CallsOf({"stopAudio"}) : ~calls[i].wasActive /\ ~calls[i].ok

\* C6: while the cleanup of an accepted stopAudio is scheduled, the id is
\* still in the sources map and the source it was accepted for has not been
\* stopped.
C6_ActiveUntilCleanup ==
  \A i \in 1..Len(timers) :
    timers[i].kind = "stop" =>
      (timers[i].id \in getActiveAudio /\ nodes[timers[i].src].playing)

Released(b) == sources[b] = 0 /\ gainNodes[b] = 0 /\ effectNodes[b] = 0

StopScheduledFor(k) ==
  \E i \in 1..Len(timers) : timers[i].kind = "stop" /\ timers[i].src = k

\* C7: under fair firing of the scheduled cleanups, an id with a scheduled
\* cleanup is eventually absent from sources, gainNodes and effectNodes, and
\* the source a stopAudio was accepted for is eventually stopped.
C7_EventuallyReleased ==
  /\ \A b \in Boundaries : TeardownPending(b) ~> Released(b)
  /\ \A k \in 1..MaxSources :
       StopScheduledFor(k) ~> (k <= Len(nodes) /\ ~nodes[k].playing)

C7_Witness ==
  /\ lastFire.kind = "stop"
  /\ Released(lastFire.id)
  /\ \E k \in 1..Len(nodes) : ~nodes[k].playing

\* C8: whenever a boundary's phase is Outside, no live audio source exists
\* for it.
C8_NoLiveSourceOutside ==
  \A b \in Boundaries : phase[b] = "Outside" => Live(b) = {}

EnteringInput ==
  /\ output # <<>>
  /\ input.fn = "entry"
  /\ 0 - input.R < input.d
  /\ input.d <= 0

\* C10 as stated: for -R < d <= 0 the expression applyEntryTransition
\* computes equals (R - |d|) / R.
C10_EntryEqualsAbsForm ==
  EnteringInput => output[1] = Frac(input.R - Abs(input.d), input.R)

\* C10 amended: for -R < d <= 0 the expression applyEntryTransition computes
\* is 1, and it equals (R - |d|) / R exactly when d = 0.
C10_EntryIsOneWhenInside ==
  EnteringInput =>
    /\ output[1] = <<1, 1>>
    /\ (output[1] = Frac(input.R - Abs(input.d), input.R)) <=> (input.d = 0)

C10_Witness == EnteringInput /\ input.d < 0

EntryOutput == output # <<>> /\ input.fn = "entry"

C12_ProgressInUnitInterval ==
  /\ (output # <<>> /\ input.fn \in {"entry", "exit"}) =>
       /\ output[1][2] > 0
       /\ 0 <= output[1][1]
       /\ output[1][1] <= output[1][2]
  /\ (output # <<>> /\ input.fn = "exitTransition") =>
       \A i \in 1..Len(output[1].calls) :
         output[1].calls[i].fn = "setVolume" =>
           /\ output[1].calls[i].arg[2] > 0
           /\ 0 <= output[1].calls[i].arg[1]
           /\ output[1].calls[i].arg[1] <= output[1].calls[i].arg[2]

C12_Witness ==
  /\ output # <<>>
  /\ input.fn = "exit"
  /\ input.d > input.R
  /\ output[1] = <<0, 1>>

\* C13: while a listener of a VOLUME_FADE boundary walks inward from the outer
\* edge of the transition zone (each update no farther out than the one
\* before, starting within the radius), the applied progress never decreases.
C13_MonotoneApproach ==
  [][\A b \in Boundaries :
       ( /\ settings[b].fadeInType = VOLUME_FADE
         /\ settings[b].fadeOutType = VOLUME_FADE
         /\ lastDist[b] # <<>>
         /\ lastDist'[b] # <<>>
         /\ lastDist[b][1] <= transitionRadius
         /\ lastDist'[b][1] <= lastDist[b][1] )
       => FLeq(progress[b], progress'[b])]_vars

C13_Witness ==
  \E b \in Boundaries :
    /\ settings[b].fadeInType = VOLUME_FADE
    /\ lastDist[b] = <<0 - (transitionRadius \div 2)>>
    /\ progress[b] = One
    /\ Live(b) # {}

ExitOutput == output # <<>> /\ input.fn = "exitTransition"

\* the exit progress of the evaluated update is at most 0.05
LowProgress == 20 * (transitionRadius - input.d) <= transitionRadius

\* the teardown commands the evaluated update issued
Teardowns ==
  {i \in 1..Len(output[1].calls) :
     output[1].calls[i].fn \in {"stopAudio", "fadeOutAudio"} /\ output[1].calls[i].ok}

C15_FadeTail ==
  ExitOutput =>
    \A i \in Teardowns :
      LET tail == output[1].calls[i].arg
      IN  /\ input.type \in {REVERB_TAIL, DELAY_FEEDBACK} =>
               (2 * tail >= 3 * fadeOutLength /\ tail <= 2 * fadeOutLength)
          /\ input.type \in {VOLUME_FADE, LOWPASS_FILTER, HIGHPASS_FILTER, PITCH_SHIFT,
                             DOPPLER, SPATIAL_BLEND} =>
               tail = fadeOutLength

\* C16: a source started by an entry update of a boundary that had no source
\* starts at the progress the update computed, not at 0, fades in over
\* fadeInLength and carries the effect chain of the boundary's fadeInType.
C16_StartsAtProgress ==
  \A i \in CallsOf({"playAudio"}) :
    (calls[i].ok /\ ~calls[i].atCall /\ calls[i].made = 1) =>
      LET n == nodes[Len(nodes)]
      IN  /\ n.id = calls[i].id
          /\ calls[i].arg = One
          /\ n.start = calls[i].arg
          /\ n.start # Zero
          /\ n.fadeIn = fadeInLength
          /\ (settings[n.id].fadeInType = VOLUME_FADE => n.effects = {})
          /\ (settings[n.id].fadeInType = LOWPASS_FILTER => n.effects = {"lowpass"})

\* C17: within one exit episode teardown is triggered once: a step that leaves
\* a boundary Exiting while a cleanup for it is already scheduled schedules no
\* further cleanup for it.
C17_NoDoubleTeardown ==
  [][\A b \in Boundaries :
       (phase[b] = "Exiting" /\ phase'[b] = "Exiting" /\ TeardownPending(b)) =>
         Cardinality({i \in 1..Len(timers') : timers'[i].id = b})
           <= Cardinality({i \in 1..Len(timers) : timers[i].id = b})]_vars

\* C18: every volume or effect-parameter change a service call makes is
\* scheduled as a ramp over a duration, never as an instantaneous set.
C18_EveryChangeIsRamp ==
  \A i \in 1..Len(calls) :
    calls[i].ok => ParamWrite(calls[i].fn) = "linearRampToValueAtTime"

\* C19: a position update is handled only after the source an earlier update
\* started has been registered: no command of an update is issued for a
\* boundary whose playAudio is still suspended.
C19_NoCommandWhileStartPending ==
  \A i \in CallsOf({"applyEffect", "setVolume", "stopAudio", "fadeOutAudio"}) :
    \A j \in 1..Len(pending) : pending[j].id # calls[i].id

CrossfadeOutput == output # <<>> /\ input.fn = "handleCrossfades"

\* v = base * (0.7 + 0.3 * (1 - d / total)), cross-multiplied:
\* v = base * (10 total - 3 d) / (10 total)
IsBlend(v, base, d, total) ==
  v[1] * base[2] * 10 * total = v[2] * base[1] * (10 * total - 3 * d)

\* the base volume of the i-th region drawn: its volume setting, or 1 when the
\* setting is absent or 0
BaseOf(i) ==
  IF input.regions[i].volume \in {<<>>, <<Zero>>} THEN One ELSE input.regions[i].volume[1]

\* C20: for every pair (i, j) of active regions that both have
\* crossfadeOverlap and whose distances d_i, d_j are not both zero,
\* handleCrossfades sets the volume of i to base_i * (0.7 + 0.3 * (1 - d_i /
\* (d_i + d_j))) and then that of j to the symmetric value.
C20_PairwiseBlend ==
  CrossfadeOutput =>
    \A i, j \in DOMAIN input.regions :
      LET di == input.regions[i].center
          dj == input.regions[j].center
      IN  ( /\ i < j
            /\ input.regions[i].crossfadeOverlap
            /\ input.regions[j].crossfadeOverlap
            /\ di + dj # 0 )
          => \E k \in 1..(Len(output[1].calls) - 1) :
               LET ci == output[1].calls[k]
                   cj == output[1].calls[k + 1]
               IN  /\ ci.fn = "setVolume" /\ ci.id = i /\ ci.ok
                   /\ IsBlend(ci.arg, BaseOf(i), di, di + dj)
                   /\ cj.fn = "setVolume" /\ cj.id = j /\ cj.ok
                   /\ IsBlend(cj.arg, BaseOf(j), dj, di + dj)

C20_Witness ==
  /\ CrossfadeOutput
  /\ Len(input.regions) = 3
  /\ \A i \in 1..3 : input.regions[i].crossfadeOverlap
  /\ input.regions[1].center = 1
  /\ input.regions[2].center = 2
  /\ input.regions[2].volume = <<<<1, 2>>>>
  /\ Len(output[1].calls) = 6

\* C21: two active crossfading regions at the same non-zero distance from the
\* listener get equal weights, and the volume applied to each is 0.85 times
\* its base volume.
C21_EquidistantPair ==
  ( /\ CrossfadeOutput
    /\ Len(input.regions) = 2
    /\ input.regions[1].crossfadeOverlap
    /\ input.regions[2].crossfadeOverlap
    /\ input.regions[1].center = input.regions[2].center
    /\ input.regions[1].center # 0 )
  => /\ Len(output[1].calls) = 2
     /\ \A i \in 1..2 :
          /\ output[1].calls[i].fn = "setVolume"
          /\ output[1].calls[i].id = i
          /\ output[1].calls[i].ok
          /\ output[1].calls[i].arg[1] * BaseOf(i)[2] * 100
               = output[1].calls[i].arg[2] * BaseOf(i)[1] * 85
          /\ output[1].S.nodes[i].gain = output[1].calls[i].arg

C21_Witness ==
  /\ CrossfadeOutput
  /\ Len(input.regions) = 2
  /\ input.regions[1] = [crossfadeOverlap |-> TRUE, volume |-> <<>>, center |-> 2]
  /\ input.regions[2] = [crossfadeOverlap |-> TRUE, volume |-> <<<<1, 2>>>>, center |-> 2]
  /\ output[1].calls[1].arg = <<17, 20>>
  /\ output[1].calls[2].arg = <<17, 40>>

\* three regions drawn, all with crossfadeOverlap, not all at distance 0
ThreeOverlapping ==
  /\ CrossfadeOutput
  /\ Len(input.regions) = 3
  /\ \A i \in 1..3 : input.regions[i].crossfadeOverlap
  /\ \E i \in 1..3 : input.regions[i].center # 0

\* C22: with three overlapping crossfading regions every applied volume is
\* the blend of one pair alone, computed from that pair's two distances, and
\* the volume of every region after handleCrossfades lies within
\* [0.7 * base, 1.0 * base].
C22_EnvelopeOfThree ==
  ThreeOverlapping =>
    /\ \A k \in 1..Len(output[1].calls) :
         LET c == output[1].calls[k]
         IN  \E j \in (1..3) \ {c.id} :
               IsBlend(c.arg, BaseOf(c.id), input.regions[c.id].center,
                       input.regions[c.id].center + input.regions[j].center)
    /\ \A i \in 1..3 :
         LET g == output[1].S.nodes[i].gain
         IN  /\ 10 * g[1] * BaseOf(i)[2] >= 7 * BaseOf(i)[1] * g[2]
             /\ g[1] * BaseOf(i)[2] <= BaseOf(i)[1] * g[2]

C22_Witness ==
  /\ ThreeOverlapping
  /\ input.regions[1].center = 0
  /\ input.regions[2].center = 1
  /\ input.regions[3].center = 2
  /\ input.regions[3].volume = <<<<1, 2>>>>
  /\ output[1].S.nodes[1].gain = One
  /\ output[1].S.nodes[3].gain = <<2, 5>>

\* the factor one pair contributes to region i: 0.7 + 0.3 * (1 - d_i / (d_i + d_j))
PairFactor(i, j) ==
  FAdd(<<7, 10>>,
       FMul(<<3, 10>>,
            FSub(One, Frac(input.regions[i].center,
                           input.regions[i].center + input.regions[j].center))))

\* C23: with three overlapping crossfading regions the final volume of a
\* region is its base volume times the factors of both pairs it takes part in.
C23_CumulativePerPair ==
  ( /\ ThreeOverlapping
    /\ \A i, j \in 1..3 :
         i # j => input.regions[i].center + input.regions[j].center # 0 )
  => \A i \in 1..3 :
       LET others == (1..3) \ {i}
           a == CHOOSE j \in others : TRUE
           b == CHOOSE j \in others : j # a
       IN  output[1].S.nodes[i].gain
             = FMul(BaseOf(i), FMul(PairFactor(i, a), PairFactor(i, b)))

\* the transition kinds a case of the entry and exit switches names
HandledTypes ==
  {VOLUME_FADE, LOWPASS_FILTER, HIGHPASS_FILTER, REVERB_TAIL, PITCH_SHIFT,
   DELAY_FEEDBACK, DOPPLER, SPATIAL_BLEND}

UnhandledInput ==
  /\ output # <<>>
  /\ input.fn \in {"entryTransition", "exitTransition"}
  /\ input.type \notin HandledTypes

\* C24: for a type no case handles (an unknown string, an absent value,
\* 'crossfade') the entry and the exit transition issue exactly the commands
\* they issue for VOLUME_FADE at the same distance: one playAudio with volume
\* = progress, fadeIn = fadeInLength and no effects, resp. one
\* fadeOutAudio(regionId, fadeOutLength).
C24_FallsBackToVolumeFade ==
  /\ (UnhandledInput /\ input.fn = "entryTransition") =>
       /\ output[1] = applyEntryTransition(1, VOLUME_FADE, input.d)
       /\ Len(output[1]) = 1
       /\ output[1][1].id = 1
       /\ output[1][1].fadeIn = fadeInLength
       /\ output[1][1].effects = {}
  /\ (UnhandledInput /\ input.fn = "exitTransition") =>
       /\ output[1] = applyExitTransition(Entered(1, VOLUME_FADE), 1, VOLUME_FADE, input.d)
       /\ Len(output[1].calls) = 1
       /\ output[1].calls[1].fn = "fadeOutAudio"
       /\ output[1].calls[1].ok
       /\ output[1].calls[1].arg = fadeOutLength

C24_Witness ==
  /\ UnhandledInput
  /\ input.fn = "entryTransition"
  /\ input.type = CROSSFADE
  /\ input.d = transitionRadius \div 2
  /\ output[1][1].volume = <<1, 2>>

\* C25: a playAudio that fails returns false and leaves no entry for its id:
\* when the id had no source before the failing call returned, it has none in
\* sources, gainNodes and effectNodes after it.
C25_FailedStartLeavesNoEntry ==
  \A i \in CallsOf({"playAudio"}) :
    (~calls[i].ok /\ ~calls[i].wasActive) => Released(calls[i].id)

PositionOutput == output # <<>> /\ input.fn = "position"

\* the position drawn has a NaN coordinate or one outside [-90, 90] x [-180, 180]
MalformedInput ==
  \/ input.lat = <<0, 0>> \/ input.lng = <<0, 0>>
  \/ input.lat[1] < 0 - 90 \/ input.lat[1] > 90
  \/ input.lng[1] < 0 - 180 \/ input.lng[1] > 180

\* C26: a position event whose lat or lng is NaN or out of range is dropped:
\* the boundary keeps its phase, progress and last distance, and no transition
\* (hence no start, volume or effect command) is run for it.
C26_MalformedPositionDropped ==
  (PositionOutput /\ MalformedInput) =>
    /\ output[1].rt = [phase |-> phase[1], progress |-> progress[1],
                       lastDist |-> lastDist[1]]
    /\ output[1].commands = "none"
    /\ output[1].d = <<>>

C26_Witness ==
  /\ PositionOutput
  /\ input.lat = <<0, 0>>
  /\ input.lng = <<0, 1>>
  /\ input.d = 0
  /\ output[1].commands = "none"

\* twice the signed area of the triangle a, b, c
Cross(a, b, c) ==
  (b.lng - a.lng) * (c.lat - a.lat) - (b.lat - a.lat) * (c.lng - a.lng)

After(pg, i) == IF i = Len(pg) THEN 1 ELSE i + 1

\* every vertex of pg is a strict turn to the same side
StrictlyConvex(pg) ==
  \/ \A i \in DOMAIN pg : Cross(pg[i], pg[After(pg, i)], pg[After(pg, After(pg, i))]) > 0
  \/ \A i \in DOMAIN pg : Cross(pg[i], pg[After(pg, i)], pg[After(pg, After(pg, i))]) < 0

\* pt lies strictly on the same side of every edge of pg, the closing edge included
StrictlyInside(pt, pg) ==
  \/ \A i \in DOMAIN pg : Cross(pg[i], pg[After(pg, i)], pt) > 0
  \/ \A i \in DOMAIN pg : Cross(pg[i], pg[After(pg, i)], pt) < 0

GeoOutput == output # <<>> /\ input.fn \in {"isPointInPolygon", "getDistanceToBoundaryEdge"}

\* C27: for a convex polygon and a point strictly inside it, isPointInPolygon
\* is true and getDistanceToBoundaryEdge is negative (inside, at a non-zero
\* distance of every edge).
C27_InsideConvex ==
  ( /\ GeoOutput
    /\ StrictlyConvex(input.polygon)
    /\ StrictlyInside(input.position, input.polygon) )
  => IF input.fn = "isPointInPolygon"
       THEN output[1] = TRUE
       ELSE output[1].neg /\ FLt(Zero, output[1].q)

C27_Witness ==
  /\ GeoOutput
  /\ input.fn = "getDistanceToBoundaryEdge"
  /\ Len(input.polygon) = 3
  /\ StrictlyConvex(input.polygon)
  /\ StrictlyInside(input.position, input.polygon)
  /\ output[1].neg

\* the squared distance of pt to the segment a-b, by the position of the
\* foot of the perpendicular
SegmentQ(pt, a, b) ==
  LET ab == (b.lat - a.lat) * (b.lat - a.lat) + (b.lng - a.lng) * (b.lng - a.lng)
      pa == (pt.lat - a.lat) * (pt.lat - a.lat) + (pt.lng - a.lng) * (pt.lng - a.lng)
      pb == (pt.lat - b.lat) * (pt.lat - b.lat) + (pt.lng - b.lng) * (pt.lng - b.lng)
      along == (pt.lat - a.lat) * (b.lat - a.lat) + (pt.lng - a.lng) * (b.lng - a.lng)
  IN  IF ab = 0 \/ along <= 0 THEN <<pa, 1>>
      ELSE IF along >= ab THEN <<pb, 1>>
      ELSE Frac(Cross(a, b, pt) * Cross(a, b, pt), ab)

\* C28: the magnitude getDistanceToBoundaryEdge returns is the least
\* point-to-segment distance over all edges, the closing edge included, and
\* the value is negated exactly when isPointInPolygon is true.
C28_NearestEdgeSigned ==
  (GeoOutput /\ input.fn = "getDistanceToBoundaryEdge") =>
    LET pg == input.polygon
        qs == {SegmentQ(input.position, pg[i], pg[After(pg, i)]) : i \in DOMAIN pg}
    IN  /\ output[1].q \in qs
        /\ \A q \in qs : FLeq(output[1].q, q)
        /\ output[1].neg = isPointInPolygon(input.position, pg)

C28_Witness ==
  /\ GeoOutput
  /\ input.fn = "getDistanceToBoundaryEdge"
  /\ input.polygon = <<[lat |-> 0, lng |-> 0], [lat |-> 3, lng |-> 0], [lat |-> 0, lng |-> 3]>>
  /\ input.position = [lat |-> 3, lng |-> 3]
  /\ output[1] = [neg |-> FALSE, q |-> <<9, 2>>]

\* an array returned by simplifyPolygon(input.points, input.tolerance), and
\* the array a second call on it returned
Simplified == input.fn = "simplifyPolygon" /\ Len(output) >= 1
SimplifiedTwice == input.fn = "simplifyPolygon" /\ Len(output) = 2

\* C29: simplifyPolygon is idempotent: simplifying the simplified sequence
\* again with the same tolerance returns the simplified sequence
C29_Idempotent == SimplifiedTwice => output[2] = output[1]

RECURSIVE InOrderFrom(_, _, _, _)
\* the objects r[i..] occur in p[j..], in this order, at increasing indexes
InOrderFrom(r, p, i, j) ==
  IF i > Len(r) THEN TRUE
  ELSE IF j > Len(p) THEN FALSE
  ELSE IF r[i] = p[j] THEN InOrderFrom(r, p, i + 1, j + 1)
  ELSE InOrderFrom(r, p, i, j + 1)

\* C30: the output of simplifyPolygon consists of input points in their
\* original order and contains the first and the last input point, also when
\* the input repeats a point (a closed ring whose last point is the first)
C30_SubsetInOrder ==
  Simplified =>
    /\ InOrderFrom(output[1], input.points, 1, 1)
    /\ output[1][1] = input.points[1]
    /\ \E k \in DOMAIN output[1] : output[1][k] = input.points[Len(input.points)]

\* a closed ring of four or more entries, its last entry the object its
\* first entry is, has been simplified to fewer entries
C30_Witness ==
  /\ Simplified
  /\ Len(input.points) >= 4
  /\ input.points[Len(input.points)] = input.points[1]
  /\ Len(output[1]) < Len(input.points)
  /\ Len(output[1]) >= 3

\* an interpolated parameter value has been computed by an entry or an exit update
ParameterComputed ==
  input.fn \in {"entryParameter", "exitParameter"} /\ output # <<>>

\* end + p x (start - end) of the settings entry the input's type interpolates
Complementary ==
  LET range == input.advancedSettings[InterpolatedSetting(input.type)]
  IN  FAdd(range.end, FMul(input.progress, FSub(range.start, range.end)))

\* C31: at equal progress p the exit transition and the entry transition of
\* each interpolating type push the same value, end + p x (start - end)
C31_ExitMirrorsEntry ==
  ParameterComputed =>
    /\ output[1] = Complementary
    /\ EntryParameter(input.type, input.progress, input.advancedSettings)
         = ExitParameter(input.type, input.progress, input.advancedSettings)

\* an exit update strictly inside the transition, start and end differing
C31_Witness ==
  /\ input.fn = "exitParameter"
  /\ output # <<>>
  /\ FLt(Zero, input.progress) /\ FLt(input.progress, One)
  /\ input.advancedSettings = defaultAdvancedSettings
  /\ output[1] # input.advancedSettings[InterpolatedSetting(input.type)].start
  /\ output[1] # input.advancedSettings[InterpolatedSetting(input.type)].end

\* C32: an interpolated value is end at progress 0, start at progress 1 and
\* never outside the interval spanned by start and end
C32_BetweenStartAndEnd ==
  ParameterComputed =>
    LET range == input.advancedSettings[InterpolatedSetting(input.type)]
    IN  /\ input.progress = Zero => output[1] = range.end
        /\ input.progress = One => output[1] = range.start
        /\ FLeq(FMin(range.start, range.end), output[1])
        /\ FLeq(output[1], FMax(range.start, range.end))

\* an entry update at progress 0 of a type whose default start and end differ
C32_Witness ==
  /\ input.fn = "entryParameter"
  /\ output # <<>>
  /\ input.progress = Zero
  /\ input.advancedSettings = defaultAdvancedSettings
  /\ output[1] = FInt(500)

\* the pitch ratio of the DOPPLER case at progress p
DopplerRatio(fn, p) ==
  IF fn = "entryDoppler" THEN EntryDopplerShift(p) ELSE ExitDopplerShift(p)

\* C33: the DOPPLER pitch ratio is symmetric about progress 0.5 and within
\* 10% of 1, on entry and on exit
C33_DopplerSymmetric ==
  (input.fn \in {"entryDoppler", "exitDoppler"} /\ output # <<>>) =>
    /\ FAdd(One, output[1]) = DopplerRatio(input.fn, FSub(One, input.progress))
    /\ FLeq(<<9, 10>>, FAdd(One, output[1]))
    /\ FLeq(FAdd(One, output[1]), <<11, 10>>)

\* the pairs handleCrossfades may blend: both regions have crossfadeOverlap
\* enabled and their two distances to the listener are not both zero
EligiblePairs ==
  {pr \in (DOMAIN input.regions) \X (DOMAIN input.regions) :
     /\ pr[1] < pr[2]
     /\ input.regions[pr[1]].crossfadeOverlap
     /\ input.regions[pr[2]].crossfadeOverlap
     /\ input.regions[pr[1]].center + input.regions[pr[2]].center # 0}

\* the regions that belong to an eligible pair
Blended == {pr[1] : pr \in EligiblePairs} \cup {pr[2] : pr \in EligiblePairs}

\* C34: handleCrossfades issues two volume commands per eligible pair and no
\* other command (none for a pair with crossfadeOverlap disabled on either
\* side, none for fewer than two regions, none for a pair at distances 0 and
\* 0), and a region of no eligible pair keeps its gain
C34_OnlyEligiblePairs ==
  CrossfadeOutput =>
    /\ Len(output[1].calls) = 2 * Cardinality(EligiblePairs)
    /\ \A k \in DOMAIN output[1].calls :
         output[1].calls[k].fn = "setVolume" /\ output[1].calls[k].id \in Blended
    /\ Len(input.regions) < 2 => output[1].calls = <<>>
    /\ \A b \in DOMAIN input.regions :
         b \notin Blended =>
           \A k \in DOMAIN output[1].S.nodes :
             output[1].S.nodes[k].id = b =>
               output[1].S.nodes[k] = Playing(Len(input.regions)).nodes[k]

\* three active regions, one with crossfadeOverlap disabled: the other two
\* were blended and the third kept its gain
C34_Witness ==
  /\ CrossfadeOutput
  /\ Len(input.regions) = 3
  /\ Cardinality(EligiblePairs) = 1
  /\ ~input.regions[2].crossfadeOverlap
  /\ Len(output[1].calls) = 2
  /\ \E k \in DOMAIN output[1].S.nodes :
       output[1].S.nodes[k].id = 1 /\ output[1].S.nodes[k].gain # One

\* the sources whose teardown has been accepted and has not run yet: a stop
\* cleanup is scheduled for the source, or a fade cleanup for the id it is
\* stored under
InTeardown ==
  {k \in 1..Len(nodes) :
     \E i \in 1..Len(timers) :
       \/ timers[i].kind = "stop" /\ timers[i].src = k
       \/ timers[i].kind = "fade" /\ sources[timers[i].id] = k}

\* C35: from the acceptance of a stop or fade-out to the release of the
\* source no command raises its gain target, and the cleanup stops the source
\* with its gain target at 0
C35_NoRampDuringTeardown ==
  [][/\ \A k \in InTeardown : FLeq(nodes'[k].gain, nodes[k].gain)
     /\ \A k \in 1..Len(nodes) :
          (nodes[k].playing /\ ~nodes'[k].playing) => nodes[k].gain = Zero]_vars

\* a playAudio for b has just returned true although the boundary is Exiting:
\* the exit commands of b were issued while the call was suspended
LateStart(b) ==
  /\ phase[b] = "Exiting"
  /\ \E i \in CallsOf({"playAudio"}) : calls[i].id = b /\ calls[i].ok

\* C36: a source whose playAudio was still pending when the exit of its
\* boundary was issued does not stay playing: unless the listener comes back
\* in, eventually no source of the boundary is active
C36_LateStartTornDown ==
  \A b \in Boundaries :
    LateStart(b) ~> (sources[b] = 0 \/ phase[b] \in {"Entering", "Inside"})

\* C37: between the atomic steps of the service the maps sources, gainNodes
\* and effectNodes hold the same ids, so getActiveAudio reports an id exactly
\* when it has a gain node and an effect map
C37_SameIds ==
  \A b \in Boundaries :
    /\ (sources[b] # 0) = (gainNodes[b] # 0)
    /\ (sources[b] # 0) = (effectNodes[b] # 0)
    /\ (b \in getActiveAudio) = (gainNodes[b] # 0 /\ effectNodes[b] # 0)

\* a cleanup has released an id that a later playAudio stored again
C37_Witness ==
  \E b \in Boundaries :
    /\ sources[b] > 1 /\ gainNodes[b] > 1 /\ effectNodes[b] > 1
    /\ ~nodes[1].playing

\* C38: for maxPoints >= 2 simplifyPath returns at most maxPoints points,
\* first the first and last the last point of the path, the kept points in
\* their original order
C38_AtMostMaxPoints ==
  (input.fn = "simplifyPath" /\ output # <<>>) =>
    /\ Len(output[1]) <= input.maxPoints
    /\ output[1][1] = 1
    /\ output[1][Len(output[1])] = input.length
    /\ \A k \in 1..(Len(output[1]) - 1) : output[1][k] < output[1][k + 1]

\* C39: consecutive points of recordedPath are at least minDistance apart, and
\* a captured position closer than that to the last recorded point changes
\* neither recordedPath nor the polyline nor recordedAudio
C39_MinDistanceApart ==
  [][/\ \A k \in 1..(Len(recorder'.recordedPath) - 1) :
          MapUtils_calculateDistance(recorder'.recordedPath[k],
                                     recorder'.recordedPath[k + 1]) >= minDistance
     /\ \A newPoint \in 0..MaxNorthing :
          (/\ CapturePosition(newPoint)
           /\ Len(recorder.recordedPath) > 0
           /\ MapUtils_calculateDistance(recorder.recordedPath[Len(recorder.recordedPath)],
                                         newPoint) < minDistance)
            => /\ recorder'.recordedPath = recorder.recordedPath
               /\ recorder'.pathPolyline = recorder.pathPolyline
               /\ recorder'.recordedAudio = recorder.recordedAudio]_vars

\* a path of three recorded points, the last two exactly minDistance apart
C39_Witness ==
  /\ Len(recorder.recordedPath) = 3
  /\ recorder.pathPolyline = recorder.recordedPath
  /\ MapUtils_calculateDistance(recorder.recordedPath[2], recorder.recordedPath[3])
       = minDistance

\* C40: generateComposition is invoked at most once per successful
\* startRecording, and a stopRecording that finds no recording in progress
\* (a second manual stop, one after the auto-stop, one arriving while the
\* first still awaits the server) returns null and submits nothing
C40_SubmitsOnce ==
  [][/\ recorder'.submitted <= 1
     /\ ((StopRecording \/ IntervalFire) /\ ~recorder.isRecording /\ recorder.submitted = 1)
          => /\ recorder'.submitted = 1
             /\ recorder'.awaiting = recorder.awaiting
             /\ (StopRecording => recorder'.returned = "null")]_vars

\* a stopRecording has returned null while the generateComposition of an
\* earlier stopRecording of the same session is still unanswered
C40_Witness ==
  /\ recorder.submitted = 1
  /\ recorder.awaiting = 1
  /\ ~recorder.isRecording
  /\ recorder.returned = "null"

====
